---- MODULE Spec2Model ----
(***************************************************************************)
(* A model of django-tutelary: pattern sequences (tutelary/base.py),       *)
(* policies and in-memory permission sets (tutelary/base.py) and the       *)
(* stored, folded permission sets (tutelary/models.py).                    *)
(*                                                                         *)
(* tutelary/wildtree.py is not part of the sources at hand; the wildcard   *)
(* tree is modelled from section 4.3 of the specification.                 *)
(***************************************************************************)
EXTENDS Integers, Sequences, FiniteSets, TLC

VARIABLES
    pa, pb, pres,          \* pattern sequences under test and the result computed from them
    tree, hist, last,      \* an in-memory PermissionSet: its WildTree, the triples inserted, the last call
    registered, py,        \* Action.registered and the interpreter major version (2 or 3)
    policyBody,            \* the Policy rows: the body of each stored policy
    psets, pis, nextPset,  \* the PermissionSet rows, the PolicyInstance rows, the next PermissionSet id
    served, dbLast,        \* the sequences each permission set was returned for; the last call
    edits, ncalls,         \* the numbers of policy edits and of by_policies calls made
    pusers, anon,          \* PermissionSet.users as (permission set, user) pairs; the sets flagged anonymous_user
    liveUsers, assigned,   \* the user rows; the permission set each principal was last given and not taken from
    uLast,                 \* the last call of assign_user_policies, clear_user_policies or user deletion
    pc, req, cur           \* concurrent by_policies callers: position, request, permission set in hand

pureVars == <<pa, pb, pres>>
psVars == <<tree, hist, last>>
regVars == <<registered, py>>
userVars == <<pusers, anon, liveUsers, assigned, uLast>>
dbVars == <<policyBody, psets, pis, nextPset, served, dbLast, edits, ncalls, userVars>>
concVars == <<pc, req, cur>>
vars == <<pa, pb, pres, tree, hist, last, registered, py,
          policyBody, psets, pis, nextPset, served, dbLast, edits, ncalls,
          pusers, anon, liveUsers, assigned, uLast, pc, req, cur>>

(***************************************************************************)
(* Bounds                                                                  *)
(***************************************************************************)
MaxPatLen == 2      \* components per pattern in the match checks
MaxComps == 2       \* components per Object in the round-trip checks
MaxCompLen == 2     \* characters per component in the round-trip checks
MaxInserts == 2     \* triples inserted into the permission set built from policies
MaxTripleInserts == 3   \* triples inserted into the permission set built triple by triple
MaxRegInserts == 2  \* triples inserted into the permission set queried for permitted actions
MaxPolicies == 2    \* stored policies
MaxSeqLen == 2      \* policies per by_policies call
MaxCalls == 2       \* by_policies calls
MaxEdits == 1       \* edits of a stored policy's body
MaxBatch == 2       \* triples inserted by one add(policy=...) or add(policies=...) call
MaxPats == 2        \* action patterns, and object patterns, per clause
MaxClauses == 2     \* clauses per policy
MaxPols == 2        \* policies per add(policies=...) call
MaxUsers == 2       \* user rows
MaxAssigns == 2     \* assign_user_policies calls

(***************************************************************************)
(* Results of calls: a returned value or a raised exception                *)
(***************************************************************************)
Return(v) == [kind |-> "return", value |-> v]
Raise(e) == [kind |-> "raise", value |-> e]
Nothing == [kind |-> "none", value |-> "none"]

WILD == "*"

(***************************************************************************)
(* SimpleSeparated (base.py 22-65)                                         *)
(***************************************************************************)
\* __eq__: exact comparison of the component lists
Eq(a, b) == a = b

Min(x, y) == IF x < y THEN x ELSE y

\* the loop of match over zip(self.components, other.components), from pair i on
RECURSIVE matchFrom(_, _, _)
matchFrom(a, b, i) ==
    IF i > Min(Len(a), Len(b)) THEN TRUE
    ELSE IF ~(a[i] = b[i] \/ a[i] = WILD \/ b[i] = WILD) THEN FALSE
    ELSE matchFrom(a, b, i + 1)

\* a plausible slip: only the receiver's wildcard is honoured
matchOneSided(a, b) ==
    IF Len(a) # Len(b) THEN FALSE
    ELSE \A i \in 1..Len(a) : a[i] = b[i] \/ a[i] = WILD

match(a, b) ==
    IF Len(a) # Len(b) THEN FALSE ELSE matchFrom(a, b, 1)

(***************************************************************************)
(* EscapeSeparated / Object (base.py 68-86, 118-127, 300-322)              *)
(* Strings are sequences of one-character strings.                         *)
(***************************************************************************)
BS == "\\"
NL == "\n"
ObjSep == "/"

IsPrefix(p, s) == Len(p) <= Len(s) /\ SubSeq(s, 1, Len(p)) = p

\* str.replace(old, new): leftmost non-overlapping occurrences, old non-empty
RECURSIVE replace(_, _, _)
replace(s, old, new) ==
    IF Len(s) < Len(old) THEN s
    ELSE IF IsPrefix(old, s)
         THEN new \o replace(SubSeq(s, Len(old) + 1, Len(s)), old, new)
         ELSE <<s[1]>> \o replace(Tail(s), old, new)

\* a plausible slip: the backslash itself is not escaped
escapeNoBackslash(s, sep) == replace(s, <<sep>>, <<BS, sep>>)

escape(s, sep) == replace(replace(s, <<BS>>, <<BS, BS>>), <<sep>>, <<BS, sep>>)

unescape(s, sep) == replace(replace(s, <<BS, sep>>, <<sep>>), <<BS, BS>>, <<BS>>)

\* separator.join(parts)
RECURSIVE join(_, _)
join(sep, parts) ==
    IF Len(parts) = 0 THEN <<>>
    ELSE IF Len(parts) = 1 THEN parts[1]
    ELSE parts[1] \o <<sep>> \o join(sep, Tail(parts))

\* EscapeSeparated.__str__
ObjectStr(comps) == join(ObjSep, [i \in 1..Len(comps) |-> escape(comps[i], ObjSep)])

\* the group ((?:[^sep\\]|\\.)+) of make_regex, greedy from position j:
\* the position after the last character it consumes
RECURSIVE groupEnd(_, _, _)
groupEnd(s, sep, j) ==
    IF j > Len(s) THEN j
    ELSE IF s[j] # sep /\ s[j] # BS THEN groupEnd(s, sep, j + 1)
    ELSE IF s[j] = BS /\ j + 1 <= Len(s) /\ s[j + 1] # NL THEN groupEnd(s, sep, j + 2)
    ELSE j

\* regex.split(s)[1::2]: the groups of the successive matches of
\* (?:sep)?(group) found scanning from position i
RECURSIVE regexGroups(_, _, _)
regexGroups(s, sep, i) ==
    IF i > Len(s) THEN <<>>
    ELSE LET j == IF s[i] = sep THEN i + 1 ELSE i
             k == groupEnd(s, sep, j)
         IN IF k > j
            THEN <<SubSeq(s, j, k - 1)>> \o regexGroups(s, sep, k)
            ELSE regexGroups(s, sep, i + 1)

\* EscapeSeparated._split_components
split_components(s) ==
    LET gs == regexGroups(s, ObjSep, 1)
    IN [i \in 1..Len(gs) |-> unescape(gs[i], ObjSep)]

\* Object(str(p)).components
ObjectRoundTrip(comps) == split_components(ObjectStr(comps))

(***************************************************************************)
(* Idle values of the variable groups a specification does not use         *)
(***************************************************************************)
PureIdle == pa = <<>> /\ pb = <<>> /\ pres = Nothing
PSIdle == tree = <<>> /\ hist = <<>> /\ last = Nothing
RegIdle == registered = {} /\ py = 3

PolicyIds == 1..MaxPolicies
Procs == {"c1", "c2"}
NoBody == [hasClause |-> FALSE, version |-> "", clause |-> <<>>, stored |-> FALSE]

Users == 1..MaxUsers
\* the user argument None, which stands for the anonymous user
AnonymousUser == 0
Principals == Users \cup {AnonymousUser}

UserIdle ==
    /\ pusers = {} /\ anon = {}
    /\ liveUsers = Users
    /\ assigned = [u \in Principals |-> 0]
    /\ uLast = Nothing

DBIdle ==
    /\ policyBody = [p \in PolicyIds |-> NoBody]
    /\ psets = {} /\ pis = {} /\ nextPset = 1
    /\ served = {} /\ dbLast = Nothing
    /\ edits = 0 /\ ncalls = 0
    /\ UserIdle

ConcIdle ==
    /\ pc = [c \in Procs |-> "idle"]
    /\ req = [c \in Procs |-> <<>>]
    /\ cur = [c \in Procs |-> 0]

SeqsUpTo(S, n) == UNION {[1..k -> S] : k \in 0..n}

(***************************************************************************)
(* SpecMatch: match and __eq__ applied to every pair of bounded patterns   *)
(***************************************************************************)
PatComps == {"a", "b", WILD}
PatSeqs == SeqsUpTo(PatComps, MaxPatLen)

InitMatch ==
    /\ pa \in PatSeqs
    /\ pb \in PatSeqs
    /\ pres = Nothing
    /\ PSIdle /\ RegIdle /\ DBIdle /\ ConcIdle

DoMatch ==
    /\ pres = Nothing
    /\ pres' = [kind |-> "match",
                value |-> [ab |-> match(pa, pb), ba |-> match(pb, pa),
                           aa |-> match(pa, pa), eq |-> Eq(pa, pb)]]
    /\ UNCHANGED <<pa, pb, psVars, regVars, dbVars, concVars>>

NextMatch == DoMatch

SpecMatch == InitMatch /\ [][NextMatch]_vars

\* C9: a.match(b) holds exactly when a and b have the same length and at
\* every position the components are equal or one of them is the wildcard;
\* match is reflexive and symmetric; equality is exact component-wise
\* comparison.
C9_MatchCharacterised ==
    pres.kind = "match" =>
        /\ pres.value.ab <=> (/\ Len(pa) = Len(pb)
                              /\ \A i \in 1..Len(pa) :
                                    pa[i] = pb[i] \/ pa[i] = WILD \/ pb[i] = WILD)
        /\ pres.value.aa
        /\ pres.value.ab <=> pres.value.ba
        /\ pres.value.eq <=> (/\ Len(pa) = Len(pb)
                              /\ \A i \in 1..Len(pa) : pa[i] = pb[i])

\* match is distinct from equality: a literal matched by the other side's wildcard
C9_Witness ==
    /\ pres.kind = "match"
    /\ pres.value.ab /\ ~pres.value.eq
    /\ \E i \in 1..Len(pa) : pa[i] # WILD /\ pb[i] = WILD

(***************************************************************************)
(* SpecEsc: str(p) and Object(s) applied to every bounded Object pattern   *)
(***************************************************************************)
Chars == {"a", ObjSep, BS}
Components == SeqsUpTo(Chars, MaxCompLen)
ObjPatterns == SeqsUpTo(Components, MaxComps)

InitEsc ==
    /\ pa \in ObjPatterns
    /\ pb = <<>>
    /\ pres = Nothing
    /\ PSIdle /\ RegIdle /\ DBIdle /\ ConcIdle

\* s = str(p)
ObjStrStep ==
    /\ pres = Nothing
    /\ pb' = ObjectStr(pa)
    /\ pres' = [kind |-> "str", value |-> <<>>]
    /\ UNCHANGED <<pa, psVars, regVars, dbVars, concVars>>

\* q = Object(s)
ObjParseStep ==
    /\ pres.kind = "str"
    /\ pres' = [kind |-> "parsed", value |-> split_components(pb)]
    /\ UNCHANGED <<pa, pb, psVars, regVars, dbVars, concVars>>

NextEsc == ObjStrStep \/ ObjParseStep

SpecEsc == InitEsc /\ [][NextEsc]_vars

\* C10 as stated: for every Object pattern p, of any components,
\* Object(str(p)) == p.
C10_Original ==
    pres.kind = "parsed" => Eq(pres.value, pa)

\* C10 amended: for every Object pattern p none of whose components is the
\* empty string, Object(str(p)) == p.
C10_RoundTripNonEmpty ==
    (pres.kind = "parsed" /\ \A i \in 1..Len(pa) : Len(pa[i]) > 0)
        => Eq(pres.value, pa)

\* a component holding both a separator and a backslash went through the round trip
C10_Witness ==
    /\ pres.kind = "parsed"
    /\ \A i \in 1..Len(pa) : Len(pa[i]) > 0
    /\ \E i \in 1..Len(pa) : pa[i] = <<BS, ObjSep>>
    /\ Len(pb) > Len(pa[1])
    /\ pres.value = pa

(***************************************************************************)
(* WildTree (tutelary/wildtree.py, modelled from the specification, 4.3):  *)
(* the stored paths in insertion order, each with its effect.              *)
(***************************************************************************)
EmptyTree == <<>>

\* tree[key] = effect: the effect at an exact path is overwritten, and the
\* path counts as inserted now
TreeSet(t, key, effect) ==
    Append(SelectSeq(t, LAMBDA n : n.key # key), [key |-> key, effect |-> effect])

\* a stored path is consistent with a query key: same length, and each
\* stored component is the query's component or the wildcard
Consistent(stored, key) ==
    /\ Len(stored) = Len(key)
    /\ \A i \in 1..Len(stored) : stored[i] = key[i] \/ stored[i] = WILD

NWild(path) == Cardinality({i \in 1..Len(path) : path[i] = WILD})

\* tree[key]: among the consistent stored paths the one with the fewest
\* wildcards, the later inserted of equally specific ones; KeyError if none
TreeGet(t, key) ==
    LET cands == {i \in 1..Len(t) : Consistent(t[i].key, key)}
    IN IF cands = {} THEN Raise("KeyError")
       ELSE LET best == CHOOSE i \in cands : \A j \in cands :
                            \/ NWild(t[i].key) < NWild(t[j].key)
                            \/ NWild(t[i].key) = NWild(t[j].key) /\ i >= j
            IN Return(t[best].effect)

(***************************************************************************)
(* Policy and PermissionSet (base.py 165-292)                              *)
(***************************************************************************)
Effects == {"allow", "deny"}
Version == "2015-12-10"

\* the triples one clause yields in Policy.__iter__: for a in c.action: for o in c.object
ClauseTriples(c) ==
    [k \in 1..(Len(c.action) * Len(c.object)) |->
        <<c.effect,
          c.action[((k - 1) \div Len(c.object)) + 1],
          c.object[((k - 1) % Len(c.object)) + 1]>>]

RECURSIVE ClausesTriples(_)
ClausesTriples(cs) ==
    IF cs = <<>> THEN <<>> ELSE ClauseTriples(Head(cs)) \o ClausesTriples(Tail(cs))

\* a plausible slip: the clauses are visited last to first
RECURSIVE ClausesTriplesRev(_)
ClausesTriplesRev(cs) ==
    IF cs = <<>> THEN <<>> ELSE ClausesTriplesRev(Tail(cs)) \o ClauseTriples(Head(cs))

PolicyIterRev(p) == ClausesTriplesRev(p.clauses)

\* Policy.__iter__
PolicyIter(p) == ClausesTriples(p.clauses)

\* a plausible slip: the key is built object first
add_tripleSwapped(t, effect, action, object) == TreeSet(t, object \o action, effect)

\* PermissionSet.add(effect, action, object)
add_triple(t, effect, action, object) == TreeSet(t, action \o object, effect)

RECURSIVE add_triples(_, _)
add_triples(t, triples) ==
    IF triples = <<>> THEN t
    ELSE add_triples(add_triple(t, triples[1][1], triples[1][2], triples[1][3]),
                     Tail(triples))

\* PermissionSet.add(policy=p)
add_policy(t, p) == add_triples(t, PolicyIter(p))

\* PermissionSet.add(policies=ps)
RECURSIVE add_policies(_, _)
add_policies(t, ps) ==
    IF ps = <<>> THEN t ELSE add_policies(add_policy(t, Head(ps)), Tail(ps))

\* a plausible slip: no match is taken for a grant
allowKeyErrorGrants(t, action, object) ==
    LET r == TreeGet(t, action \o object)
    IN IF r.kind = "raise" THEN Return(TRUE) ELSE Return(r.value = "allow")

\* a plausible slip: the stored effect is compared with the wrong literal
allowInverted(t, action, object) ==
    LET r == TreeGet(t, action \o object)
    IN IF r.kind = "raise" THEN Return(FALSE) ELSE Return(r.value = "deny")

\* PermissionSet.allow
allow(t, action, object) ==
    LET r == TreeGet(t, action \o object)
    IN IF r.kind = "raise" /\ r.value = "KeyError" THEN Return(FALSE)
       ELSE IF r.kind = "raise" THEN r
       ELSE Return(r.value = "allow")

RECURSIVE PoliciesTriples(_)
PoliciesTriples(ps) ==
    IF ps = <<>> THEN <<>> ELSE PolicyIter(Head(ps)) \o PoliciesTriples(Tail(ps))

(***************************************************************************)
(* Inputs of the in-memory permission set                                  *)
(***************************************************************************)
ActionPats == {<<"party", WILD>>, <<"party", "delete">>, <<"party">>}
ObjectPats == {<<"Org", WILD>>, <<"Org", "1">>}
QueryActions == ActionPats \cup {<<"party", "edit">>}
QueryObjects == ObjectPats

IsConcrete(pat) == \A i \in 1..Len(pat) : pat[i] # WILD

\* the pattern lists Clause.__init__ accepts: distinct, pairwise not matching
NonOverlapping(l) ==
    \A i, j \in 1..Len(l) : i # j => ~match(l[i], l[j])

PatLists(S) == {l \in SeqsUpTo(S, MaxPats) : Len(l) > 0 /\ NonOverlapping(l)}

Clauses == [effect : Effects, action : PatLists(ActionPats), object : PatLists(ObjectPats)]

BatchCap == Min(MaxBatch, MaxInserts)

ClauseSize(c) == Len(c.action) * Len(c.object)

\* the clauses by the number of triples they yield
ClausesOfSize == [n \in 0..BatchCap |-> {c \in Clauses : ClauseSize(c) = n}]

\* the clause lists of at most k clauses that yield exactly n triples
RECURSIVE ClauseSeqsOfSize(_, _)
ClauseSeqsOfSize(k, n) ==
    (IF n = 0 THEN {<<>>} ELSE {}) \cup
    (IF k = 0 THEN {}
     ELSE UNION {{<<c>> \o r : c \in ClausesOfSize[m],
                               r \in ClauseSeqsOfSize(k - 1, n - m)} : m \in 1..n})

\* parsed policies by the number of triples they yield, the policy with an
\* empty clause list included
PoliciesOfSize ==
    [n \in 0..BatchCap |->
        {[version |-> Version, clauses |-> cs] : cs \in ClauseSeqsOfSize(MaxClauses, n)}]

\* the policy lists of at most k policies that yield exactly n triples
RECURSIVE PolicyListsExact(_, _)
PolicyListsExact(k, n) ==
    (IF n = 0 THEN {<<>>} ELSE {}) \cup
    (IF k = 0 THEN {}
     ELSE UNION {{<<p>> \o r : p \in PoliciesOfSize[m],
                               r \in PolicyListsExact(k - 1, n - m)} : m \in 0..n})

PolicyListsOfSize == [n \in 0..BatchCap |-> PolicyListsExact(MaxPols, n)]

(***************************************************************************)
(* Spec: one PermissionSet, built by add calls and queried by allow        *)
(***************************************************************************)
Init ==
    /\ tree = EmptyTree
    /\ hist = <<>>
    /\ last = Nothing
    /\ PureIdle /\ RegIdle /\ DBIdle /\ ConcIdle

AddTriple(e, a, o) ==
    /\ tree' = add_triple(tree, e, a, o)
    /\ hist' = Append(hist, <<e, a, o>>)
    /\ last' = [kind |-> "add", value |-> [arg |-> <<e, a, o>>, pre |-> tree]]
    /\ UNCHANGED <<pureVars, regVars, dbVars, concVars>>

AddPolicy(p) ==
    /\ tree' = add_policy(tree, p)
    /\ hist' = hist \o PolicyIter(p)
    /\ last' = [kind |-> "add_policy", value |-> [arg |-> p, pre |-> tree]]
    /\ UNCHANGED <<pureVars, regVars, dbVars, concVars>>

AddPolicies(ps) ==
    /\ tree' = add_policies(tree, ps)
    /\ hist' = hist \o PoliciesTriples(ps)
    /\ last' = [kind |-> "add_policies", value |-> [arg |-> ps, pre |-> tree]]
    /\ UNCHANGED <<pureVars, regVars, dbVars, concVars>>

Allow(a, o) ==
    /\ last' = [kind |-> "allow", value |-> [action |-> a, object |-> o,
                                             result |-> allow(tree, a, o)]]
    /\ UNCHANGED <<tree, hist, pureVars, regVars, dbVars, concVars>>

Next ==
    \/ \E e \in Effects, a \in ActionPats, o \in ObjectPats :
          Len(hist) < MaxInserts /\ AddTriple(e, a, o)
    \/ \E n \in 0..BatchCap :
          Len(hist) + n <= MaxInserts /\ \E p \in PoliciesOfSize[n] : AddPolicy(p)
    \/ \E n \in 0..BatchCap :
          Len(hist) + n <= MaxInserts /\ \E ps \in PolicyListsOfSize[n] : AddPolicies(ps)
    \/ \E a \in QueryActions, o \in QueryObjects : Allow(a, o)

Spec == Init /\ [][Next]_vars

(***************************************************************************)
(* SpecTriples: the same PermissionSet built only triple by triple         *)
(***************************************************************************)
NextTriples ==
    \/ \E e \in Effects, a \in ActionPats, o \in ObjectPats :
          Len(hist) < MaxTripleInserts /\ AddTriple(e, a, o)
    \/ \E a \in QueryActions, o \in QueryObjects : Allow(a, o)

SpecTriples == Init /\ [][NextTriples]_vars

(***************************************************************************)
(* Properties of the in-memory permission set                              *)
(***************************************************************************)
Party == <<"party">>
PartyAny == <<"party", WILD>>
PartyDelete == <<"party", "delete">>
PartyEdit == <<"party", "edit">>
OrgAny == <<"Org", WILD>>
Org1 == <<"Org", "1">>

ConcreteQueries ==
    {q \in QueryActions \X QueryObjects : IsConcrete(q[1]) /\ IsConcrete(q[2])}

\* C1: for every permission set built by add calls and every concrete
\* query, allow returns true exactly when the tree lookup of
\* action.components + object.components succeeds and yields 'allow', false
\* when the lookup finds no match or yields 'deny', and never raises; a
\* permission set built from an empty policy list denies every concrete query.
C1_AllowIsLookup ==
    /\ \A q \in ConcreteQueries :
          LET r == TreeGet(tree, q[1] \o q[2])
          IN allow(tree, q[1], q[2]) = Return(r.kind = "return" /\ r.value = "allow")
    /\ (last.kind = "allow" /\ <<last.value.action, last.value.object>> \in ConcreteQueries)
          => /\ last.value.result.kind = "return"
             /\ last.value.result.value =
                   (TreeGet(tree, last.value.action \o last.value.object) = Return("allow"))
    /\ (last.kind = "add_policies" /\ last.value.pre = EmptyTree /\ Len(last.value.arg) = 0)
          => \A q \in ConcreteQueries : allow(tree, q[1], q[2]) = Return(FALSE)

\* a concrete query was granted, and one on the same set was refused for want of a match
C1_Witness ==
    /\ last.kind = "allow"
    /\ <<last.value.action, last.value.object>> \in ConcreteQueries
    /\ last.value.result = Return(TRUE)
    /\ \E q \in ConcreteQueries :
          TreeGet(tree, q[1] \o q[2]).kind = "raise" /\ allow(tree, q[1], q[2]) = Return(FALSE)

\* the effect of the inserted triple that is consistent with the key, uses
\* the fewest wildcards and, among equally specific ones, was inserted last
HistBest(h, key) ==
    LET cands == {i \in 1..Len(h) : Consistent(h[i][2] \o h[i][3], key)}
    IN IF cands = {} THEN "none"
       ELSE LET best == CHOOSE i \in cands : \A j \in cands :
                            \/ NWild(h[i][2] \o h[i][3]) < NWild(h[j][2] \o h[j][3])
                            \/ /\ NWild(h[i][2] \o h[i][3]) = NWild(h[j][2] \o h[j][3])
                               /\ i >= j
            IN h[best][1]

\* C2: after any sequence of insertions, the lookup of a concrete key gives
\* the effect of the inserted path that is consistent with the key and uses
\* the fewest wildcards, the later inserted among equally specific ones;
\* after (party.*, Org/*) -> allow and then (party.delete, Org/*) -> deny,
\* allow(party.delete, Org/1) is false and allow(party.edit, Org/1) is true.
C2_MostSpecificThenLatest ==
    /\ \A q \in ConcreteQueries :
          LET r == TreeGet(tree, q[1] \o q[2])
              want == HistBest(hist, q[1] \o q[2])
          IN /\ (IF r.kind = "return" THEN r.value ELSE "none") = want
             /\ allow(tree, q[1], q[2]) = Return(want = "allow")
    /\ hist = << <<"allow", PartyAny, OrgAny>>, <<"deny", PartyDelete, OrgAny>> >>
          => /\ allow(tree, PartyDelete, Org1) = Return(FALSE)
             /\ allow(tree, PartyEdit, Org1) = Return(TRUE)

\* the override example was run and queried
C2_Witness ==
    /\ hist = << <<"allow", PartyAny, OrgAny>>, <<"deny", PartyDelete, OrgAny>> >>
    /\ last.kind = "allow"
    /\ last.value.action = PartyDelete /\ last.value.object = Org1
    /\ last.value.result = Return(FALSE)

\* a tie between two equally specific paths was decided for the later one,
\* which had been stored before and was inserted again
TieAfterReinsert ==
    /\ hist = << <<"deny", PartyAny, Org1>>, <<"deny", PartyDelete, OrgAny>>,
                 <<"allow", PartyAny, Org1>> >>
    /\ last.kind = "allow"
    /\ last.value.action = PartyDelete /\ last.value.object = Org1
    /\ last.value.result = Return(TRUE)

\* the effect stored at an exact path, "none" if the path is not stored
ExactAt(t, path) ==
    IF \E i \in 1..Len(t) : t[i].key = path
    THEN t[CHOOSE i \in 1..Len(t) : t[i].key = path].effect
    ELSE "none"

AllPaths == {a \o o : a \in ActionPats, o \in ObjectPats}

\* the policies an add call of any of the three forms inserts
AddedPolicies(l) ==
    IF l.kind = "add"
    THEN << [version |-> Version,
             clauses |-> << [effect |-> l.value.arg[1],
                             action |-> <<l.value.arg[2]>>,
                             object |-> <<l.value.arg[3]>>] >>] >>
    ELSE IF l.kind = "add_policy" THEN <<l.value.arg>>
    ELSE l.value.arg

\* the positions (policy, clause, action, object) of the triples of a policy list
TripleIdx(ps) ==
    UNION {UNION {{<<pi, ci, ai, oi>> :
                      ai \in 1..Len(ps[pi].clauses[ci].action),
                      oi \in 1..Len(ps[pi].clauses[ci].object)} :
                  ci \in 1..Len(ps[pi].clauses)} :
           pi \in 1..Len(ps)}

TripleAt(ps, x) ==
    LET c == ps[x[1]].clauses[x[2]]
    IN <<c.effect, c.action[x[3]], c.object[x[4]]>>

LexLeq(x, y) ==
    \/ x[1] < y[1]
    \/ x[1] = y[1] /\ x[2] < y[2]
    \/ x[1] = y[1] /\ x[2] = y[2] /\ x[3] < y[3]
    \/ x[1] = y[1] /\ x[2] = y[2] /\ x[3] = y[3] /\ x[4] <= y[4]

HasWildcard(a, o) == ~IsConcrete(a) \/ ~IsConcrete(o)

NoneValue == [isNone |-> TRUE, actions |-> {}]
SetValue(S) == [isNone |-> FALSE, actions |-> S]

\* Action.register(action).  An argument is a string (given by the
\* components Action(action) splits it into), an Action, or a list of
\* Actions.  SimpleSeparated defines __eq__ and no __hash__: under Python 3
\* an Action is unhashable and registered.add raises TypeError.  map is
\* lazy under Python 3, so the registrations of a list never run there.
\* Registered actions are kept by their components.
RECURSIVE register(_, _, _)
register(reg, v, x) ==
    IF x.type = "str" THEN register(reg, v, [type |-> "Action", value |-> x.value])
    ELSE IF x.type = "Action"
         THEN IF v = 3 THEN [reg |-> reg, result |-> Raise("TypeError")]
              ELSE [reg |-> reg \cup {x.value}, result |-> Return("None")]
    ELSE IF v = 3 \/ x.value = <<>> THEN [reg |-> reg, result |-> Return("None")]
    ELSE register(register(reg, v, [type |-> "Action", value |-> Head(x.value)]).reg,
                  v, [type |-> "list", value |-> Tail(x.value)])

\* PermissionSet.permitted_actions: the body is pass
permitted_actions(t, object) == NoneValue

RegActions == {<<"party", "delete">>, <<"party", "edit">>}

RegInputs ==
    [type : {"str", "Action"}, value : RegActions]
        \cup [type : {"list"}, value : SeqsUpTo(RegActions, 2)]

InitReg ==
    /\ tree = EmptyTree
    /\ hist = <<>>
    /\ last = Nothing
    /\ registered = {}
    /\ py \in {2, 3}
    /\ PureIdle /\ DBIdle /\ ConcIdle

Register(x) ==
    /\ registered' = register(registered, py, x).reg
    /\ last' = [kind |-> "register",
                value |-> [arg |-> x, result |-> register(registered, py, x).result]]
    /\ UNCHANGED <<tree, hist, py, pureVars, dbVars, concVars>>

PermittedActions(o) ==
    /\ last' = [kind |-> "permitted_actions",
                value |-> [object |-> o, result |-> Return(permitted_actions(tree, o))]]
    /\ UNCHANGED <<tree, hist, regVars, pureVars, dbVars, concVars>>

NextReg ==
    \/ \E x \in RegInputs : Register(x)
    \/ \E e \in Effects, a \in ActionPats, o \in ObjectPats :
          Len(hist) < MaxRegInserts /\ AddTriple(e, a, o)
    \/ \E o \in QueryObjects : PermittedActions(o)

SpecReg == InitReg /\ [][NextReg]_vars

\* the registered actions the set allows on some stored object pattern
\* that matches the given object pattern
PermittedOn(t, reg, object) ==
    {r \in reg :
        \E i \in 1..Len(t) :
            /\ Len(t[i].key) > Len(object)
            /\ LET op == SubSeq(t[i].key, Len(t[i].key) - Len(object) + 1, Len(t[i].key))
               IN /\ match(op, object)
                  /\ TreeGet(t, r \o op) = Return("allow")}

\* C7: permitted_actions(object) returns exactly the set of registered
\* actions that the permission set allows on some stored object pattern
\* matching the given object pattern; an action whose most specific
\* applicable rule is deny, and an unregistered action, is not returned.
C7_PermittedActionsExact ==
    last.kind = "permitted_actions" =>
        last.value.result = Return(SetValue(PermittedOn(tree, registered, last.value.object)))

(***************************************************************************)
(* Policy bodies and Policy.__init__ (base.py 142-195).  A body is the     *)
(* JSON text of a policy, given by what loads makes of it; a component     *)
(* "$x" is a placeholder of string.Template.                               *)
(***************************************************************************)
IsPlaceholder(c) == c = "$x"
NameOf(c) == "x"

BodyAllow ==
    [stored |-> TRUE, hasClause |-> TRUE, version |-> "",
     clause |-> << [effect |-> "allow", action |-> <<PartyDelete>>, object |-> <<Org1>>] >>]

BodyDenyVar ==
    [stored |-> TRUE, hasClause |-> TRUE, version |-> "",
     clause |-> << [effect |-> "deny", action |-> <<PartyAny>>,
                    object |-> << <<"Org", "$x">> >>] >>]

Bodies == {BodyAllow, BodyDenyVar}

\* variable assignments: a dict as its items in order
Bindings == {<<>>, << <<"x", "1">> >>}
NoVariables == [isNone |-> TRUE, items |-> <<>>]
Variables(items) == [isNone |-> FALSE, items |-> items]

DictKeys(items) == {items[i][1] : i \in 1..Len(items)}
DictGet(items, k) == items[CHOOSE i \in 1..Len(items) : items[i][1] = k][2]

SubstPattern(pat, items) ==
    [i \in 1..Len(pat) |->
        IF IsPlaceholder(pat[i]) THEN DictGet(items, NameOf(pat[i])) ELSE pat[i]]

SubstPatterns(l, items) == [i \in 1..Len(l) |-> SubstPattern(l[i], items)]

BodyPlaceholders(body) ==
    {c \in UNION {UNION {{l[j][k] : k \in 1..Len(l[j])} : j \in 1..Len(l)} :
                     l \in UNION {{body.clause[i].action, body.clause[i].object} :
                                     i \in 1..Len(body.clause)}} :
        IsPlaceholder(c)}

\* Template(json).substitute(variables): a placeholder without a binding is
\* a KeyError (VariableSubstitutionException); with variables None the
\* lookup of a placeholder is a TypeError, which Policy.__init__ lets through
substitute(body, variables) ==
    IF BodyPlaceholders(body) = {} THEN Return(body)
    ELSE IF variables.isNone THEN Raise("TypeError")
    ELSE IF \E c \in BodyPlaceholders(body) : NameOf(c) \notin DictKeys(variables.items)
         THEN Raise("VariableSubstitutionException")
    ELSE Return([body EXCEPT !.clause =
                    [i \in 1..Len(body.clause) |->
                        [effect |-> body.clause[i].effect,
                         action |-> SubstPatterns(body.clause[i].action, variables.items),
                         object |-> SubstPatterns(body.clause[i].object, variables.items)]]])

\* a1 != a2 between the patterns of one list: SimpleSeparated defines __eq__
\* and no __ne__, so Python 3 negates __eq__ and Python 2 compares identities
Differ(l, i, j, v) == IF v = 3 THEN ~Eq(l[i], l[j]) ELSE i # j

Overlapping(l, v) ==
    \E i, j \in 1..Len(l) : Differ(l, i, j, v) /\ match(l[i], l[j])

\* Clause.__init__ without the test of the object patterns
ClauseInitNoObjectCheck(c, v) ==
    IF c.effect \notin Effects THEN Raise("EffectException")
    ELSE IF Overlapping(c.action, v) THEN Raise("PatternOverlapException(action)")
    ELSE Return([effect |-> c.effect, action |-> c.action, object |-> c.object])

\* Clause.__init__(dict=c)
ClauseInit(c, v) ==
    IF c.effect \notin Effects THEN Raise("EffectException")
    ELSE IF Overlapping(c.action, v) THEN Raise("PatternOverlapException(action)")
    ELSE IF Overlapping(c.object, v) THEN Raise("PatternOverlapException(object)")
    ELSE Return([effect |-> c.effect, action |-> c.action, object |-> c.object])

\* [Clause(dict=c) for c in self.clauses]: the clauses, or the first exception
RECURSIVE ClausesInit(_, _)
ClausesInit(cs, v) ==
    IF cs = <<>> THEN Return(<<>>)
    ELSE LET h == ClauseInit(Head(cs), v)
         IN IF h.kind = "raise" THEN h
            ELSE LET t == ClausesInit(Tail(cs), v)
                 IN IF t.kind = "raise" THEN t ELSE Return(<<h.value>> \o t.value)

\* Policy.__init__(json, variables)
PolicyInit(body, variables, v) ==
    LET d == substitute(body, variables)
    IN IF d.kind = "raise" THEN d
       ELSE IF ~d.value.hasClause THEN Raise("PolicyBodyException")
       ELSE LET cs == ClausesInit(d.value.clause, v)
                version == IF d.value.version # "" THEN d.value.version ELSE Version
            IN IF cs.kind = "raise" THEN cs
               ELSE IF version # Version THEN Raise("PolicyBodyException")
               ELSE Return([version |-> version, clauses |-> cs.value])

(***************************************************************************)
(* Stored permission sets (models.py 57-171)                               *)
(***************************************************************************)
\* an element of the policies argument: a bare policy, or (policy, variables)
Elements ==
    {e \in [tuple : BOOLEAN, policy : PolicyIds, vars : Bindings] : ~e.tuple => e.vars = <<>>}

\* json.dumps of a dict of strings, as the pieces of its text
RECURSIVE dumpsItems(_)
dumpsItems(items) ==
    IF items = <<>> THEN <<>>
    ELSE <<"\"", items[1][1], "\"", ": ", "\"", items[1][2], "\"">>
            \o (IF Len(items) > 1 THEN <<", ">> ELSE <<>>)
            \o dumpsItems(Tail(items))

dumps(items) == <<"{">> \o dumpsItems(items) \o <<"}">>

\* canonpols of by_policies
canonpols(els) ==
    [i \in 1..Len(els) |->
        [policy |-> els[i].policy,
         variables |-> IF els[i].tuple THEN dumps(els[i].vars) ELSE <<"{", "}">>]]

\* policy_psets: the ids of the permission sets using all of the policies
policy_psets(P, I, cp) ==
    IF Len(cp) = 0
    THEN {ps.id : ps \in P} \ {pi.pset : pi \in I}
    ELSE {id \in {pi.pset : pi \in I} :
             \A i \in 1..Len(cp) : \E pi \in I : pi.pset = id /\ pi.policy = cp[i].policy}

\* PolicyInstance.objects.filter(pset=pset), in Meta.ordering
RECURSIVE SortedRows(_)
SortedRows(S) ==
    IF S = {} THEN <<>>
    ELSE LET m == CHOOSE r \in S : \A r2 \in S : r.index <= r2.index
         IN <<m>> \o SortedRows(S \ {m})

RowsOf(I, id) == SortedRows({pi \in I : pi.pset = id})

\* a plausible slip: the variable assignments of the rows are not compared
SameRowsPoliciesOnly(rows, cp) ==
    /\ Len(rows) = Len(cp)
    /\ \A i \in 1..Len(cp) : rows[i].policy = cp[i].policy

\* the test of by_policies on the rows of a candidate
SameRows(rows, cp) ==
    /\ Len(rows) = Len(cp)
    /\ \A i \in 1..Len(cp) :
          ~(rows[i].policy # cp[i].policy \/ rows[i].variables # cp[i].variables)

\* the candidates by_policies would return
Existing(P, I, cp) ==
    {id \in policy_psets(P, I, cp) : SameRows(RowsOf(I, id), cp)}

\* make_pol
make_pol(e, bodies, v) ==
    IF e.tuple THEN PolicyInit(bodies[e.policy], Variables(e.vars), v)
    ELSE PolicyInit(bodies[e.policy], NoVariables, v)

RECURSIVE make_pols(_, _, _)
make_pols(els, bodies, v) ==
    IF els = <<>> THEN Return(<<>>)
    ELSE LET h == make_pol(Head(els), bodies, v)
         IN IF h.kind = "raise" THEN h
            ELSE LET t == make_pols(Tail(els), bodies, v)
                 IN IF t.kind = "raise" THEN t ELSE Return(<<h.value>> \o t.value)

\* engine.PermissionTree(policies=[make_pol(p) for p in policies])
BuildPTree(els, bodies, v) ==
    LET pols == make_pols(els, bodies, v)
    IN IF pols.kind = "raise" THEN pols
       ELSE Return(add_policies(EmptyTree, pols.value))

\* repr(ptree) and PermissionTree(json=data): the stored paths with their
\* effects, in insertion order (specification, 4.3)
TreeRepr(t) == [i \in 1..Len(t) |-> <<t[i].key, t[i].effect>>]
TreeFromJson(data) == [i \in 1..Len(data) |-> [key |-> data[i][1], effect |-> data[i][2]]]

\* a PermissionSet model instance; ptree is set on the instance by_policies creates
Instance(id, data, hasPtree, ptree) ==
    [id |-> id, data |-> data, hasPtree |-> hasPtree, ptree |-> ptree]

\* PermissionSet.tree
PSetTree(inst) == IF inst.hasPtree THEN inst.ptree ELSE TreeFromJson(inst.data)

DataOf(P, id) == (CHOOSE ps \in P : ps.id = id).data

NewRows(id, cp) ==
    {[pset |-> id, policy |-> cp[i].policy, index |-> i - 1, variables |-> cp[i].variables] :
        i \in 1..Len(cp)}

StoredPolicies == {p \in PolicyIds : policyBody[p].stored}

Requests == SeqsUpTo(Elements, MaxSeqLen)

\* a request can only name policies that are stored
Callable(els) == \A i \in 1..Len(els) : els[i].policy \in StoredPolicies

\* what identifies a request: at every position the policy and the text of
\* its variable assignments, a bare policy having none
SeqIdentity(els) ==
    [i \in 1..Len(els) |->
        <<els[i].policy, IF els[i].tuple THEN dumps(els[i].vars) ELSE dumps(<<>>)>>]

(***************************************************************************)
(* SpecDB: policies are created and edited, by_policies is called          *)
(***************************************************************************)
InitDB == PureIdle /\ PSIdle /\ RegIdle /\ DBIdle /\ ConcIdle

\* Policy.objects.create(body=...)
CreatePolicy(body) ==
    /\ \E p \in PolicyIds :
          /\ ~policyBody[p].stored
          /\ \A q \in PolicyIds : q < p => policyBody[q].stored
          /\ policyBody' = [policyBody EXCEPT ![p] = body]
          /\ dbLast' = [kind |-> "create_policy", value |-> "none"]
    /\ UNCHANGED <<psets, pis, nextPset, served, edits, ncalls>>
    /\ UNCHANGED <<pureVars, psVars, regVars, concVars, userVars>>

\* policy.body = body; policy.save()
EditPolicy(p, body) ==
    /\ policyBody[p].stored
    /\ policyBody' = [policyBody EXCEPT ![p] = body]
    /\ edits' = edits + 1
    /\ dbLast' = [kind |-> "edit_policy", value |-> "none"]
    /\ UNCHANGED <<psets, pis, nextPset, served, ncalls>>
    /\ UNCHANGED <<pureVars, psVars, regVars, concVars, userVars>>

\* PermissionSet.objects.by_policies(policies)
ByPolicies(els) ==
    /\ ncalls' = ncalls + 1
    /\ LET cp == canonpols(els)
           found == Existing(psets, pis, cp)
           built == BuildPTree(els, policyBody, py)
       IN IF found # {}
          THEN \E id \in found :
                  /\ dbLast' = [kind |-> "by_policies",
                                value |-> [seq |-> els, created |-> FALSE,
                                           result |-> Return(Instance(id, DataOf(psets, id),
                                                                      FALSE, EmptyTree))]]
                  /\ served' = served \cup {<<id, SeqIdentity(els)>>}
                  /\ UNCHANGED <<psets, pis, nextPset>>
          ELSE IF built.kind = "raise"
          THEN /\ dbLast' = [kind |-> "by_policies",
                             value |-> [seq |-> els, created |-> FALSE, result |-> built]]
               /\ UNCHANGED <<psets, pis, nextPset, served>>
          ELSE /\ psets' = psets \cup {[id |-> nextPset, data |-> TreeRepr(built.value)]}
               /\ pis' = pis \cup NewRows(nextPset, cp)
               /\ nextPset' = nextPset + 1
               /\ served' = served \cup {<<nextPset, SeqIdentity(els)>>}
               /\ dbLast' = [kind |-> "by_policies",
                             value |-> [seq |-> els, created |-> TRUE,
                                        result |-> Return(Instance(nextPset,
                                                                   TreeRepr(built.value),
                                                                   TRUE, built.value))]]
    /\ UNCHANGED <<policyBody, edits>>
    /\ UNCHANGED <<pureVars, psVars, regVars, concVars, userVars>>

NextDB ==
    \/ \E body \in Bodies : CreatePolicy(body)
    \/ \E p \in PolicyIds, body \in Bodies : edits < MaxEdits /\ EditPolicy(p, body)
    \/ \E els \in Requests : ncalls < MaxCalls /\ Callable(els) /\ ByPolicies(els)

SpecDB == InitDB /\ [][NextDB]_vars

\* C4: two by_policies calls whose sequences have the same length and at
\* every position the same policy and the same serialized variable bindings
\* return the same stored permission set, and no second one is created; two
\* calls whose sequences differ in length, order or a binding return
\* distinct permission sets.
C4_FoldedBySequence ==
    /\ \A x, y \in served : (x[2] = y[2]) <=> (x[1] = y[1])
    /\ Cardinality(psets) = Cardinality({x[2] : x \in served})

\* a second call, written differently (a bare policy against a pair with
\* empty bindings), was handed the permission set the first call created
C4_Witness ==
    /\ dbLast.kind = "by_policies"
    /\ dbLast.value.result.kind = "return"
    /\ ~dbLast.value.created
    /\ Len(dbLast.value.seq) = 2
    /\ \E i \in 1..2 : dbLast.value.seq[i].tuple /\ dbLast.value.seq[i].vars = <<>>
    /\ ncalls = 2
    /\ Cardinality(psets) = 1
    /\ \E pi \in pis : pi.variables # <<"{", "}">>

\* C6: the permission set by_policies returns answers every allow query as
\* a permission set freshly built at that moment from the same policies and
\* variables would.
C6_CacheKeepsDecisions ==
    (dbLast.kind = "by_policies" /\ dbLast.value.result.kind = "return") =>
        LET fresh == BuildPTree(dbLast.value.seq, policyBody, py)
        IN fresh.kind = "return" =>
              \A q \in ConcreteQueries :
                 allow(PSetTree(dbLast.value.result.value), q[1], q[2])
                     = allow(fresh.value, q[1], q[2])

(***************************************************************************)
(* SpecConc: two callers run by_policies at the same time.  Every query    *)
(* of by_policies is a transaction of its own (autocommit); the search is  *)
(* taken as one step, each insert as a step.                               *)
(***************************************************************************)
InitConc ==
    /\ policyBody \in [PolicyIds -> Bodies]
    /\ psets = {} /\ pis = {} /\ nextPset = 1
    /\ served = {} /\ dbLast = Nothing
    /\ edits = 0 /\ ncalls = 0
    /\ UserIdle
    /\ ConcIdle
    /\ PureIdle /\ PSIdle /\ RegIdle

\* by_policies up to the end of the search loop (models.py 91-112)
ConcSearch(c, els) ==
    /\ pc[c] = "idle"
    /\ req' = [req EXCEPT ![c] = els]
    /\ LET found == Existing(psets, pis, canonpols(els))
       IN IF found # {}
          THEN \E id \in found :
                  /\ cur' = [cur EXCEPT ![c] = id]
                  /\ pc' = [pc EXCEPT ![c] = "done"]
          ELSE /\ pc' = [pc EXCEPT ![c] = "build"]
               /\ UNCHANGED cur
    /\ UNCHANGED <<dbVars, pureVars, psVars, regVars>>

\* the tree is built and the PermissionSet row inserted (models.py 120-133)
ConcCreate(c) ==
    /\ pc[c] = "build"
    /\ LET built == BuildPTree(req[c], policyBody, py)
       IN IF built.kind = "raise"
          THEN /\ pc' = [pc EXCEPT ![c] = "failed"]
               /\ UNCHANGED <<psets, nextPset, cur>>
          ELSE /\ psets' = psets \cup {[id |-> nextPset, data |-> TreeRepr(built.value)]}
               /\ nextPset' = nextPset + 1
               /\ cur' = [cur EXCEPT ![c] = nextPset]
               /\ pc' = [pc EXCEPT ![c] = IF Len(req[c]) = 0 THEN "done" ELSE "rows"]
    /\ UNCHANGED <<policyBody, pis, served, dbLast, edits, ncalls, req>>
    /\ UNCHANGED <<pureVars, psVars, regVars, userVars>>

\* one PolicyInstance row is inserted (models.py 135-139)
ConcAddRow(c) ==
    /\ pc[c] = "rows"
    /\ LET cp == canonpols(req[c])
           i == Cardinality({pi \in pis : pi.pset = cur[c]}) + 1
       IN /\ pis' = pis \cup {[pset |-> cur[c], policy |-> cp[i].policy,
                               index |-> i - 1, variables |-> cp[i].variables]}
          /\ pc' = [pc EXCEPT ![c] = IF i = Len(cp) THEN "done" ELSE "rows"]
    /\ UNCHANGED <<policyBody, psets, nextPset, served, dbLast, edits, ncalls, req, cur>>
    /\ UNCHANGED <<pureVars, psVars, regVars, userVars>>

NextConc ==
    \/ \E c \in Procs, els \in Requests : ConcSearch(c, els)
    \/ \E c \in Procs : ConcCreate(c)
    \/ \E c \in Procs : ConcAddRow(c)

SpecConc == InitConc /\ [][NextConc]_vars

Quiescent == \A c \in Procs : pc[c] \in {"idle", "done", "failed"}

RowIdentity(I, id) ==
    LET rows == RowsOf(I, id)
    IN [i \in 1..Len(rows) |-> <<rows[i].policy, rows[i].variables>>]

\* C5: under any interleaving of concurrent by_policies callers, no two
\* stored permission sets are left with the same ordered policy-instance
\* sequence, and no caller is handed a permission set whose policy-instance
\* rows are not those of the sequence it asked for.
C5_OneBuildPerSequence ==
    Quiescent =>
        /\ \A p1, p2 \in psets :
              p1.id # p2.id => RowIdentity(pis, p1.id) # RowIdentity(pis, p2.id)
        /\ \A c \in Procs :
              pc[c] = "done" => RowIdentity(pis, cur[c]) = SeqIdentity(req[c])


(***************************************************************************)
(* SpecClause: Clause.__init__ applied to every bounded clause entry,      *)
(* under both interpreter versions                                         *)
(***************************************************************************)
ClauseEffects == Effects \cup {"maybe"}
ClauseActionPats == ActionPats \cup {PartyEdit}
ClauseObjectPats == ObjectPats \cup {<<"Org", "2">>}

ClauseEntries ==
    [effect : ClauseEffects,
     action : SeqsUpTo(ClauseActionPats, MaxPats),
     object : SeqsUpTo(ClauseObjectPats, MaxPats)]

InitClause ==
    /\ pa \in ClauseEntries
    /\ pb = <<>>
    /\ pres = Nothing
    /\ registered = {}
    /\ py \in {2, 3}
    /\ PSIdle /\ DBIdle /\ ConcIdle

\* Clause(dict=pa)
DoClause ==
    /\ pres = Nothing
    /\ pres' = [kind |-> "clause", value |-> ClauseInit(pa, py)]
    /\ UNCHANGED <<pa, pb, psVars, regVars, dbVars, concVars>>

NextClause == DoClause

SpecClause == InitClause /\ [][NextClause]_vars

\* two patterns of the list that differ as values match each other
DistinctMatch(l) == \E i, j \in 1..Len(l) : ~Eq(l[i], l[j]) /\ match(l[i], l[j])

RaisedWith(r, e) == r.kind = "raise" /\ r.value = e

\* C11 as stated: construction fails naming 'action' whenever two distinct
\* action patterns match each other and naming 'object' whenever two
\* distinct object patterns match each other; it succeeds when the effect is
\* valid and both lists are pairwise non-matching; a constructed Clause has
\* no two distinct matching actions and no two distinct matching objects.
C11_Original ==
    pres.kind = "clause" =>
        /\ DistinctMatch(pa.action) =>
               RaisedWith(pres.value, "PatternOverlapException(action)")
        /\ DistinctMatch(pa.object) =>
               RaisedWith(pres.value, "PatternOverlapException(object)")
        /\ (pa.effect \in Effects /\ NonOverlapping(pa.action) /\ NonOverlapping(pa.object))
               => pres.value.kind = "return"
        /\ pres.value.kind = "return" =>
               /\ ~DistinctMatch(pres.value.value.action)
               /\ ~DistinctMatch(pres.value.value.object)

\* C11 amended: the checks run in the order effect, actions, objects and the
\* first that fails decides the error.  An invalid effect fails with
\* EffectException; with a valid effect, two distinct matching action
\* patterns fail with PatternOverlapException('action'); with a valid effect
\* and pairwise non-matching actions, two distinct matching object patterns
\* fail with PatternOverlapException('object'); with a valid effect and both
\* lists pairwise non-matching construction succeeds and keeps the effect and
\* the lists; a constructed Clause has no two distinct matching actions and
\* no two distinct matching objects.
C11_ClauseValidation ==
    pres.kind = "clause" =>
        /\ pa.effect \notin Effects => RaisedWith(pres.value, "EffectException")
        /\ (pa.effect \in Effects /\ DistinctMatch(pa.action)) =>
               RaisedWith(pres.value, "PatternOverlapException(action)")
        /\ (pa.effect \in Effects /\ NonOverlapping(pa.action) /\ DistinctMatch(pa.object)) =>
               RaisedWith(pres.value, "PatternOverlapException(object)")
        /\ (pa.effect \in Effects /\ NonOverlapping(pa.action) /\ NonOverlapping(pa.object))
               => pres.value = Return(pa)
        /\ pres.value.kind = "return" =>
               /\ ~DistinctMatch(pres.value.value.action)
               /\ ~DistinctMatch(pres.value.value.object)

\* the clause with actions party.edit, party.* was refused for its actions
C11_Witness ==
    /\ pres.kind = "clause"
    /\ pa.effect = "allow"
    /\ pa.action = <<PartyEdit, PartyAny>>
    /\ pa.object = <<Org1>>
    /\ RaisedWith(pres.value, "PatternOverlapException(action)")


(***************************************************************************)
(* SpecPolicy: Policy.__init__ applied to every bounded body and variable  *)
(* assignment, under both interpreter versions                             *)
(***************************************************************************)
BodyEntries ==
    {[effect |-> "allow", action |-> <<PartyDelete>>, object |-> <<Org1>>],
     [effect |-> "deny", action |-> <<PartyAny>>, object |-> << <<"Org", "$x">> >>],
     [effect |-> "allow", action |-> <<PartyEdit, PartyAny>>, object |-> <<Org1>>],
     [effect |-> "maybe", action |-> <<PartyEdit>>, object |-> <<OrgAny>>]}

BodyVersions == {"", Version, "1999-01-01"}

\* what loads makes of a body: the 'clause' entry may be missing, and may be
\* an empty list
PolicyBodies ==
    {b \in [stored : {TRUE}, hasClause : BOOLEAN, version : BodyVersions,
            clause : SeqsUpTo(BodyEntries, MaxClauses)] :
        ~b.hasClause => b.clause = <<>>}

VariableArgs == {NoVariables} \cup {Variables(items) : items \in Bindings}

InitPolicy ==
    /\ pa \in PolicyBodies
    /\ pb \in VariableArgs
    /\ pres = Nothing
    /\ registered = {}
    /\ py \in {2, 3}
    /\ PSIdle /\ DBIdle /\ ConcIdle

\* Policy(pa, pb)
DoPolicy ==
    /\ pres = Nothing
    /\ pres' = [kind |-> "policy", value |-> PolicyInit(pa, pb, py)]
    /\ UNCHANGED <<pa, pb, psVars, regVars, dbVars, concVars>>

NextPolicy == DoPolicy

SpecPolicy == InitPolicy /\ [][NextPolicy]_vars

\* C12: Policy construction fails whenever the policy has zero clauses, for
\* a body without a 'clause' entry and for a body whose 'clause' list is
\* empty alike, so every constructed Policy has at least one clause.
C12_ZeroClausesRejected ==
    pres.kind = "policy" =>
        /\ (~pa.hasClause \/ pa.clause = <<>>) => pres.value.kind = "raise"
        /\ pres.value.kind = "return" => Len(pres.value.value.clauses) >= 1


(***************************************************************************)
(* Policy.__str__ and Policy.hash (base.py 203-219).  Texts are sequences  *)
(* of characters and of the fixed pieces dumps writes.                     *)
(***************************************************************************)
ActSep == "."
QUOTE == "\""

\* SimpleSeparated.__str__
ActionStr(comps) == join(ActSep, comps)

\* dumps of a string
jsonString(s) ==
    <<QUOTE>> \o replace(replace(s, <<BS>>, <<BS, BS>>), <<QUOTE>>, <<BS, QUOTE>>) \o <<QUOTE>>

\* dumps of a list, given the texts of its elements
jsonList(texts) == <<"[">> \o join(", ", texts) \o <<"]">>

\* dumps of a dict, given the texts of its values and the order in which the
\* interpreter iterates over its keys
jsonDict(order, texts) ==
    <<"{">> \o join(", ", [i \in 1..Len(order) |->
                              jsonString(<<order[i]>>) \o <<": ">> \o texts[order[i]]])
        \o <<"}">>

\* one_clause(c) of Policy.__str__, dumped
one_clause(c, order) ==
    jsonDict(order,
        [k \in {"effect", "action", "object"} |->
            IF k = "effect" THEN jsonString(<<c.effect>>)
            ELSE IF k = "action"
                 THEN jsonList([i \in 1..Len(c.action) |-> jsonString(ActionStr(c.action[i]))])
                 ELSE jsonList([i \in 1..Len(c.object) |-> jsonString(ObjectStr(c.object[i]))])])

\* Policy.__str__
PolicyStr(p, order) ==
    jsonDict(order.outer,
        [k \in {"version", "clause"} |->
            IF k = "version" THEN jsonString(<<p.version>>)
            ELSE jsonList([i \in 1..Len(p.clauses) |-> one_clause(p.clauses[i], order.inner)])])

\* Policy.hash: the digest of the text, a function of the text alone
hash(p, order) == [md5 |-> PolicyStr(p, order)]

(***************************************************************************)
(* SpecCanon: __str__ and hash of every pair of bounded policies           *)
(***************************************************************************)
ActPE == << <<"p">>, <<"e">> >>
ActPD == << <<"p">>, <<"d">> >>
ObjO1 == << <<"O">>, <<"1">> >>
ObjOSlash == << <<"O">>, <<"a", ObjSep>> >>

\* constructed clauses: two that list the same actions in different orders,
\* one of the other effect, one with other patterns
CanonClauses ==
    {[effect |-> "allow", action |-> <<ActPE, ActPD>>, object |-> <<ObjO1>>],
     [effect |-> "allow", action |-> <<ActPD, ActPE>>, object |-> <<ObjO1>>],
     [effect |-> "deny", action |-> <<ActPE, ActPD>>, object |-> <<ObjO1>>],
     [effect |-> "allow", action |-> <<ActPE>>, object |-> <<ObjOSlash, ObjO1>>]}

CanonPolicies == [version : {Version}, clauses : SeqsUpTo(CanonClauses, MaxClauses)]

\* the orders a dict can iterate over its keys in, one per interpreter process
Perms(S) == {f \in [1..Cardinality(S) -> S] : \A i, j \in 1..Cardinality(S) : f[i] = f[j] => i = j}
KeyOrders == [outer : Perms({"version", "clause"}), inner : Perms({"effect", "action", "object"})]

InitCanon ==
    /\ pa \in [p : CanonPolicies, q : CanonPolicies]
    /\ pb \in KeyOrders
    /\ pres = Nothing
    /\ PSIdle /\ RegIdle /\ DBIdle /\ ConcIdle

\* str(p), str(q), p.hash(), q.hash()
DoCanon ==
    /\ pres = Nothing
    /\ pres' = [kind |-> "canon",
                value |-> [sp |-> PolicyStr(pa.p, pb), sq |-> PolicyStr(pa.q, pb),
                           hp |-> hash(pa.p, pb), hq |-> hash(pa.q, pb)]]
    /\ UNCHANGED <<pa, pb, psVars, regVars, dbVars, concVars>>

NextCanon == DoCanon

SpecCanon == InitCanon /\ [][NextCanon]_vars

PatSet(l) == {l[i] : i \in 1..Len(l)}

\* same version, same clauses in the same order, a clause being an effect, a
\* set of actions and a set of objects
SameClauses(p, q) ==
    /\ p.version = q.version
    /\ Len(p.clauses) = Len(q.clauses)
    /\ \A i \in 1..Len(p.clauses) :
          /\ p.clauses[i].effect = q.clauses[i].effect
          /\ PatSet(p.clauses[i].action) = PatSet(q.clauses[i].action)
          /\ PatSet(p.clauses[i].object) = PatSet(q.clauses[i].object)

\* C13: two Policies with the same version and the same clauses in the same
\* order (same effect, same set of actions, same set of objects) have the
\* same canonical string and the same hash, in whatever order the patterns
\* were listed inside a clause; policies that differ in a clause's effect,
\* patterns or clause order have different canonical strings.
C13_CanonicalByContent ==
    pres.kind = "canon" =>
        /\ SameClauses(pa.p, pa.q) =>
              /\ pres.value.sp = pres.value.sq
              /\ pres.value.hp = pres.value.hq
        /\ ~SameClauses(pa.p, pa.q) => pres.value.sp # pres.value.sq


(***************************************************************************)
(* Permission sets of users (models.py 157-162, 174-213).  db is the       *)
(* content of the PermissionSet and PolicyInstance tables and of the       *)
(* PermissionSet.users relation.                                           *)
(***************************************************************************)
DB(P, I, U, A, n) == [psets |-> P, pis |-> I, pusers |-> U, anon |-> A, nextPset |-> n]

UsersOf(db, id) == {x[2] : x \in {y \in db.pusers : y[1] = id}}
PSetsOf(db, user) == {x[1] : x \in {y \in db.pusers : y[2] = user}}

\* pset.delete(): the PolicyInstance rows cascade, the rows of the users
\* relation go with the permission set
DeletePSet(db, id) ==
    [db EXCEPT !.psets = {ps \in @ : ps.id # id},
               !.pis = {pi \in @ : pi.pset # id},
               !.pusers = {x \in @ : x[1] # id},
               !.anon = @ \ {id}]

\* if pset.users.count() == 0: pset.delete()
DeleteIfUnused(db, id) == IF UsersOf(db, id) = {} THEN DeletePSet(db, id) ELSE db

Done(db) == [kind |-> "return", value |-> "None", db |-> db]
Failed(e, db) == [kind |-> "raise", value |-> e, db |-> db]

\* a plausible slip: the user is not taken off the permission set
clear_user_policiesNoRemove(db, user) ==
    IF user = AnonymousUser
    THEN IF db.anon = {} THEN Done(db)
         ELSE IF Cardinality(db.anon) > 1 THEN Failed("MultipleObjectsReturned", db)
         ELSE LET id == CHOOSE i \in db.anon : TRUE
              IN Done(DeleteIfUnused([db EXCEPT !.anon = {}], id))
    ELSE IF PSetsOf(db, user) = {} THEN Done(db)
         ELSE LET id == CHOOSE i \in PSetsOf(db, user) : \A j \in PSetsOf(db, user) : i <= j
              IN Done(DeleteIfUnused(db, id))

\* clear_user_policies(user)
clear_user_policies(db, user) ==
    IF user = AnonymousUser
    THEN IF db.anon = {} THEN Done(db)
         ELSE IF Cardinality(db.anon) > 1 THEN Failed("MultipleObjectsReturned", db)
         ELSE LET id == CHOOSE i \in db.anon : TRUE
              IN Done(DeleteIfUnused([db EXCEPT !.anon = {}], id))
    ELSE IF PSetsOf(db, user) = {} THEN Done(db)
         ELSE LET id == CHOOSE i \in PSetsOf(db, user) : \A j \in PSetsOf(db, user) : i <= j
              IN Done(DeleteIfUnused([db EXCEPT !.pusers = @ \ {<<id, user>>}], id))

\* PermissionSet.objects.by_policies(policies) on db: the outcomes it can
\* have, each with the permission set returned (0 if it raised)
by_policies(db, els, bodies, v) ==
    LET cp == canonpols(els)
        found == Existing(db.psets, db.pis, cp)
        built == BuildPTree(els, bodies, v)
    IN IF found # {}
       THEN {[kind |-> "return", value |-> "None", pset |-> id, db |-> db] : id \in found}
       ELSE IF built.kind = "raise"
       THEN {[kind |-> "raise", value |-> built.value, pset |-> 0, db |-> db]}
       ELSE {[kind |-> "return", value |-> "None", pset |-> db.nextPset,
              db |-> [db EXCEPT !.psets = @ \cup {[id |-> db.nextPset,
                                                   data |-> TreeRepr(built.value)]},
                                !.pis = @ \cup NewRows(db.nextPset, cp),
                                !.nextPset = @ + 1]]}

\* assign_user_policies(user, *policies): the outcomes it can have
assign_user_policies(db, user, els, bodies, v) ==
    LET c == clear_user_policies(db, user)
    IN IF c.kind = "raise"
       THEN {[kind |-> "raise", value |-> c.value, pset |-> 0, db |-> c.db]}
       ELSE {IF o.kind = "raise" THEN o
             ELSE [o EXCEPT !.db = IF user = AnonymousUser
                                   THEN [o.db EXCEPT !.anon = @ \cup {o.pset}]
                                   ELSE [o.db EXCEPT !.pusers = @ \cup {<<o.pset, user>>}]] :
                o \in by_policies(c.db, els, bodies, v)}

(***************************************************************************)
(* SpecUsers: users and the anonymous user are given policies, cleared     *)
(* and deleted, one call after the other                                   *)
(***************************************************************************)
UserElements == {e \in Elements : e.policy = 1}

\* the empty sequence, every single element, and the pairs of different elements
UserRequests ==
    {<<>>} \cup {<<e>> : e \in UserElements}
           \cup {r \in [1..2 -> UserElements] : r[1] # r[2]}

CurrentDB == DB(psets, pis, pusers, anon, nextPset)

InitUsers ==
    /\ policyBody \in {f \in [PolicyIds -> Bodies] : \A p \in PolicyIds : p > 1 => f[p] = BodyAllow}
    /\ psets = {} /\ pis = {} /\ nextPset = 1
    /\ served = {} /\ dbLast = Nothing
    /\ edits = 0 /\ ncalls = 0
    /\ UserIdle
    /\ PureIdle /\ PSIdle /\ RegIdle /\ ConcIdle

SetDB(db) ==
    /\ psets' = db.psets
    /\ pis' = db.pis
    /\ pusers' = db.pusers
    /\ anon' = db.anon
    /\ nextPset' = db.nextPset

\* what a call found: the permission sets, who was attached to them, which
\* was flagged
Snapshot == [psets |-> psets, pusers |-> pusers, anon |-> anon]

\* assign_user_policies(user, *els)
AssignUserPolicies(user, els) ==
    /\ user \in liveUsers \cup {AnonymousUser}
    /\ \E o \in assign_user_policies(CurrentDB, user, els, policyBody, py) :
          /\ SetDB(o.db)
          /\ assigned' = [assigned EXCEPT ![user] = o.pset]
          /\ uLast' = [kind |-> "assign",
                       value |-> [user |-> user, seq |-> els, pre |-> Snapshot,
                                  result |-> [kind |-> o.kind, value |-> o.value]]]
    /\ ncalls' = ncalls + 1
    /\ UNCHANGED <<policyBody, served, dbLast, edits, liveUsers>>
    /\ UNCHANGED <<pureVars, psVars, regVars, concVars>>

\* clear_user_policies(user)
ClearUserPolicies(user) ==
    /\ user \in liveUsers \cup {AnonymousUser}
    /\ LET c == clear_user_policies(CurrentDB, user)
       IN /\ SetDB(c.db)
          /\ uLast' = [kind |-> "clear",
                       value |-> [user |-> user, seq |-> <<>>, pre |-> Snapshot,
                                  result |-> [kind |-> c.kind, value |-> c.value]]]
    /\ assigned' = [assigned EXCEPT ![user] = 0]
    /\ UNCHANGED <<policyBody, served, dbLast, edits, ncalls, liveUsers>>
    /\ UNCHANGED <<pureVars, psVars, regVars, concVars>>

\* user.delete(): user_delete runs before the row and its relations go
DeleteUser(user) ==
    /\ user \in liveUsers
    /\ LET c == clear_user_policies(CurrentDB, user)
       IN /\ SetDB([c.db EXCEPT !.pusers = {x \in @ : x[2] # user}])
          /\ uLast' = [kind |-> "delete",
                       value |-> [user |-> user, seq |-> <<>>, pre |-> Snapshot,
                                  result |-> [kind |-> c.kind, value |-> c.value]]]
    /\ liveUsers' = liveUsers \ {user}
    /\ assigned' = [assigned EXCEPT ![user] = 0]
    /\ UNCHANGED <<policyBody, served, dbLast, edits, ncalls>>
    /\ UNCHANGED <<pureVars, psVars, regVars, concVars>>

NextUsers ==
    \/ \E user \in Principals, els \in UserRequests :
          ncalls < MaxAssigns /\ AssignUserPolicies(user, els)
    \/ \E user \in Principals : ClearUserPolicies(user)
    \/ \E user \in Users : DeleteUser(user)

SpecUsers == InitUsers /\ [][NextUsers]_vars


PSetIds == {ps.id : ps \in psets}

\* the permission sets a principal has: attached to the user, or flagged
\* for the anonymous user
Held(U, A, user) ==
    IF user = AnonymousUser THEN A ELSE {x[1] : x \in {y \in U : y[2] = user}}

\* C14: after any sequence of assign_user_policies, clear_user_policies and
\* user deletions, every user is attached to at most one permission set and
\* at most one permission set is flagged as the anonymous user's; when
\* assign_user_policies(user, policies) has returned, the one permission set
\* of that principal is the stored set whose policy instances are exactly
\* the sequence given, the one by_policies finds for it.
C14_OnePermissionSetEach ==
    /\ \A user \in Users : Cardinality(Held(pusers, anon, user)) <= 1
    /\ Cardinality(anon) <= 1
    /\ (uLast.kind = "assign" /\ uLast.value.result.kind = "return") =>
          LET mine == Held(pusers, anon, uLast.value.user)
          IN /\ Cardinality(mine) = 1
             /\ mine \subseteq PSetIds
             /\ mine = Existing(psets, pis, canonpols(uLast.value.seq))
             /\ \A id \in mine : RowIdentity(pis, id) = SeqIdentity(uLast.value.seq)

\* a user who had a permission set was given another sequence, of two
\* policy instances, and now has the one permission set built for it
C14_Witness ==
    /\ uLast.kind = "assign"
    /\ uLast.value.result.kind = "return"
    /\ uLast.value.user \in Users
    /\ Len(uLast.value.seq) = 2
    /\ Held(uLast.value.pre.pusers, uLast.value.pre.anon, uLast.value.user) # {}
    /\ Held(uLast.value.pre.pusers, uLast.value.pre.anon, uLast.value.user)
          # Held(pusers, anon, uLast.value.user)
    /\ Cardinality(Held(pusers, anon, uLast.value.user)) = 1

\* C15: after any sequence of assign_user_policies and clear_user_policies
\* calls, the permission set a principal was given, and that was not taken
\* from it by a call for that principal, still exists and is still the
\* principal's: a call for one principal never removes the permission set
\* of another principal folded onto the same instance.
C15_SharedSetSurvives ==
    \A user \in Principals :
        assigned[user] # 0 =>
            /\ assigned[user] \in PSetIds
            /\ assigned[user] \in Held(pusers, anon, user)

ValidationErrors ==
    {"PolicyBodyException", "VariableSubstitutionException", "EffectException",
     "PatternOverlapException(action)", "PatternOverlapException(object)"}

\* C16: when assign_user_policies(user, policies) fails with a policy
\* parsing or validation error, the stored permission sets and the
\* assignments of the principals are what they were before the call.
C16_FailedAssignChangesNothing ==
    (/\ uLast.kind = "assign"
     /\ uLast.value.result.kind = "raise"
     /\ uLast.value.result.value \in ValidationErrors)
        => Snapshot = uLast.value.pre

====
